---- MODULE Spec2Model ----
(***************************************************************************)
(* A model of queryset_sequence.py: QuerySequence (the query object that   *)
(* holds several QuerySets, their ordering and the slice window), its      *)
(* ordered iterator, and QuerySetSequence._filter_or_exclude / _simplify.  *)
(*                                                                         *)
(* Python objects are modelled as entries of a heap: a QuerySequence is an *)
(* entry of objs, its order_by attribute is a reference into lists (Python *)
(* lists are shared by reference, and _ordered_iterator writes through     *)
(* such a reference).  A QuerySet (a source) is a value: Django QuerySets  *)
(* are never changed in place by the calls made here, each call returns a  *)
(* new one.                                                                *)
(***************************************************************************)
EXTENDS Integers, Sequences, FiniteSets, TLC

VARIABLES
    objs,   \* the QuerySequence objects: id -> attributes
    lists,  \* the Python lists held in order_by attributes: list id -> tokens
    gen,    \* the iterator returned by the last __iter__ call, if any
    ret     \* what the last call returned or raised

vars == <<objs, lists, gen, ret>>

(***************************************************************************)
(* Bounds of the model.                                                    *)
(***************************************************************************)
\* The most rows the tables of the drawn sources hold together.
MaxRows == 3
\* The largest low_mark / high_mark the window operations are followed to.
MaxMark == 2
\* The longest order_by list add_ordering is followed to.
MaxOrder == 2

\* The values a model field holds.
Vals == {0, 1}
\* The model fields an element has, and the objects (rows) of a table.
FieldNames == {"a", "b"}
Elements == [FieldNames -> Vals]
\* The identities of the QuerySequence objects: an original and its clone.
Coords == {"c1", "c2"}
\* The positions of the sources in a QuerySequence drawn by Init.
SourcePositions == {1, 2, 3}

(***************************************************************************)
(* Python values.                                                          *)
(***************************************************************************)
\* Python's None, where an int may stand (low, high, high_mark).
None == -1

\* A returned value and a raised exception.
Ok(v) == [ok |-> TRUE, v |-> v]
Raise(e) == [ok |-> FALSE, exc |-> e]

\* An int and a tuple, told apart as Python tells them apart by type.
PyInt(n) == [t |-> "int", v |-> n]
PyTuple(s) == [t |-> "tuple", v |-> s]

\* A field token is a Python string, a sequence of characters: "-a" is
\* <<"-", "a">>, so that field_name[0] and field_name[1:] are Head and Tail.
Tokens == {<<f>> : f \in FieldNames} \cup {<<"-", f>> : f \in FieldNames}

Range(s) == {s[i] : i \in DOMAIN s}

SeqsUpTo(S, n) == UNION {[1..k -> S] : k \in 0..n}

\* The cmp builtin on ints.
IntCmp(x, y) == IF x < y THEN -1 ELSE IF x > y THEN 1 ELSE 0

\* The cmp builtin: ints by value, tuples lexicographically (an int sorts
\* before a tuple, cmp of mixed types being by type name).
RECURSIVE cmp(_, _)
cmp(x, y) ==
    IF x.t = "int" /\ y.t = "int" THEN IntCmp(x.v, y.v)
    ELSE IF x.t = "int" THEN -1
    ELSE IF y.t = "int" THEN 1
    ELSE IF x.v = <<>> /\ y.v = <<>> THEN 0
    ELSE IF x.v = <<>> THEN -1
    ELSE IF y.v = <<>> THEN 1
    ELSE LET c == cmp(Head(x.v), Head(y.v))
         IN  IF c # 0 THEN c ELSE cmp(PyTuple(Tail(x.v)), PyTuple(Tail(y.v)))

\* getattr(i, name): the element's field of that name.
getattr(i, name) == i[name[1]]

\* operator.attrgetter(*names)(i): the single value for one name, a tuple
\* of the values for several.
attrgetter(names, i) ==
    IF Len(names) = 1 THEN PyInt(getattr(i, names[1]))
    ELSE PyTuple([k \in 1..Len(names) |-> PyInt(getattr(i, names[k]))])

\* multiply_iterables: the element-wise product, after the length assertion.
multiply_iterables(it1, it2) ==
    IF Len(it1) # Len(it2) THEN Raise("AssertionError")
    ELSE Ok([k \in 1..Len(it1) |-> it1[k] * it2[k]])

\* fields_getter of _ordered_iterator: the tuple "of the values to be
\* compared"; the attrgetter result is wrapped whenever field_names is not
\* empty.
fields_getter(field_names, i) ==
    LET field_values == attrgetter(field_names, i)
    IN  IF Len(field_names) # 0 THEN PyTuple(<<field_values>>) ELSE field_values

\* map(cmp, t1, t2) on two tuples of one length.
MapCmp(t1, t2) == [k \in 1..Len(t1.v) |-> cmp(t1.v[k], t2.v[k])]

\* dropwhile(__not__, order).next(), 0 on StopIteration.
RECURSIVE FirstNonZero(_)
FirstNonZero(order) ==
    IF order = <<>> THEN 0
    ELSE IF Head(order) # 0 THEN Head(order)
    ELSE FirstNonZero(Tail(order))

\* comparator of _ordered_iterator.
comparator(field_names, reverses, i1, i2) ==
    LET order == multiply_iterables(
                     MapCmp(fields_getter(field_names, i1),
                            fields_getter(field_names, i2)),
                     reverses)
    IN  IF order.ok THEN Ok(FirstNonZero(order.v)) ELSE order

(***************************************************************************)
(* The sources.  A QuerySet is modelled by the rows of its table, in the   *)
(* table's own order, and the ordering last requested of it; iterating it  *)
(* yields the rows sorted by that ordering (rows that tie keep the table's *)
(* order).                                                                 *)
(***************************************************************************)
\* Whether a token asks for descending order, and the field it names.
IsDesc(tok) == Head(tok) = "-"
FieldOf(tok) == IF IsDesc(tok) THEN Tail(tok) ELSE tok

\* The order a list of tokens defines on two elements: the first field that
\* differs decides, reversed for a descending field; 0 when none differs.
RECURSIVE SpecCompare(_, _, _)
SpecCompare(spec, e1, e2) ==
    IF spec = <<>> THEN 0
    ELSE LET c == IntCmp(getattr(e1, FieldOf(Head(spec))),
                         getattr(e2, FieldOf(Head(spec))))
             d == IF IsDesc(Head(spec)) THEN -c ELSE c
         IN  IF d # 0 THEN d ELSE SpecCompare(Tail(spec), e1, e2)

\* x put into the sorted sequence s behind every element not greater than it.
RECURSIVE InsertBy(_, _, _)
InsertBy(spec, s, x) ==
    IF s = <<>> THEN <<x>>
    ELSE IF SpecCompare(spec, x, s[Len(s)]) < 0
         THEN Append(InsertBy(spec, SubSeq(s, 1, Len(s) - 1), x), s[Len(s)])
         ELSE Append(s, x)

\* The stable sort of a sequence of elements by a list of tokens.
RECURSIVE SortBy(_, _)
SortBy(spec, s) ==
    IF s = <<>> THEN <<>>
    ELSE InsertBy(spec, SortBy(spec, SubSeq(s, 1, Len(s) - 1)), s[Len(s)])

IsSortedBy(spec, s) ==
    \A i \in 1..(Len(s) - 1) : SpecCompare(spec, s[i], s[i + 1]) <= 0

Source(rows, ord) == [rows |-> rows, ord |-> ord]

\* iter(qs): the elements the source yields, in its current order.
SourceIter(qs) == SortBy(qs.ord, qs.rows)
\* qs.count()
SourceCount(qs) == Len(qs.rows)
\* qs._clone()
SourceClone(qs) == qs
\* qs.order_by(*ordering): the ordering replaces the one requested before.
SourceOrderBy(qs, ordering) == [qs EXCEPT !.ord = ordering]
\* bool(qs), as filter(None, ...) tests it.
SourceNonEmpty(qs) == Len(qs.rows) > 0

\* map(f, seq)
Map(F(_), s) == [k \in 1..Len(s) |-> F(s[k])]

RECURSIVE SumSeq(_)
SumSeq(s) == IF s = <<>> THEN 0 ELSE Head(s) + SumSeq(Tail(s))

RECURSIVE ConcatAll(_)
ConcatAll(ss) == IF ss = <<>> THEN <<>> ELSE Head(ss) \o ConcatAll(Tail(ss))

(***************************************************************************)
(* QuerySequence.                                                          *)
(***************************************************************************)
ListIds == 1..(Cardinality(Coords) + 1)

\* The id a newly allocated list gets: the first one no object in `others`
\* refers to.
FreshList(o, others) ==
    CHOOSE n \in ListIds :
        /\ \A d \in others : o[d].order_by # n
        /\ \A m \in ListIds : (\A d \in others : o[d].order_by # m) => n <= m

\* The heap without the lists no object refers to any more.
Collect(o, l) ==
    [n \in {o[d].order_by : d \in DOMAIN o} |-> l[n]]

\* QuerySequence.__init__(*args), with order_by the list `ref`.
init(args, ref) ==
    [querysets |-> args,
     filter_is_sticky |-> FALSE,
     order_by |-> ref,
     low_mark |-> 0,
     high_mark |-> None]

\* The attributes clone gives the copy, and the heap with the copy's list:
\* obj.order_by = self.order_by[:] is a new list `ref` with the same tokens.
clone_alias(self, l, ref) ==
    [obj |-> [querysets |-> Map(SourceClone, self.querysets),
              filter_is_sticky |-> self.filter_is_sticky,
              order_by |-> self.order_by,
              low_mark |-> self.low_mark,
              high_mark |-> self.high_mark],
     lists |-> l]

clone_obj(self, l, ref) ==
    [obj |-> [querysets |-> Map(SourceClone, self.querysets),
              filter_is_sticky |-> self.filter_is_sticky,
              order_by |-> ref,
              low_mark |-> self.low_mark,
              high_mark |-> self.high_mark],
     lists |-> [n \in DOMAIN l \cup {ref} |->
                   IF n = ref THEN l[self.order_by] ELSE l[n]]]

\* get_count applying the window to the sum, as Query.get_count does.
get_count_sliced(self) ==
    LET number == SumSeq(Map(SourceCount, self.querysets)) - self.low_mark
        positive == IF number < 0 THEN 0 ELSE number
    IN  IF self.high_mark # None /\ self.high_mark - self.low_mark < positive
        THEN self.high_mark - self.low_mark
        ELSE positive

\* get_count(using): the sum of the sources' counts.
get_count(self) == SumSeq(Map(SourceCount, self.querysets))

\* The new low_mark and high_mark of set_limits(low, high).
Min(x, y) == IF x <= y THEN x ELSE y

\* set_limits taking high from low_mark without the clamp to high_mark.
limits_high_unclamped(self, low, high) ==
    IF high # None THEN self.low_mark + high ELSE self.high_mark

\* set_limits taking high as a position of the whole sequence, not one
\* relative to low_mark.
limits_high_absolute(self, low, high) ==
    IF high # None
    THEN IF self.high_mark # None THEN Min(self.high_mark, high) ELSE high
    ELSE self.high_mark

limits_high(self, low, high) ==
    IF high # None
    THEN IF self.high_mark # None
         THEN Min(self.high_mark, self.low_mark + high)
         ELSE self.low_mark + high
    ELSE self.high_mark

\* set_limits adding low without the clamp to high_mark.
limits_low_unclamped(self, low, high) ==
    IF low # None THEN self.low_mark + low ELSE self.low_mark

limits_low(self, low, high) ==
    LET high_mark == limits_high(self, low, high)
    IN  IF low # None
        THEN IF high_mark # None
             THEN Min(high_mark, self.low_mark + low)
             ELSE self.low_mark + low
        ELSE self.low_mark

\* can_filter looking at high_mark alone.
can_filter_high(self) == self.high_mark = None

\* can_filter(): not self.low_mark and self.high_mark is None
can_filter(self) == self.low_mark = 0 /\ self.high_mark = None

\* No iterator is being consumed: the calls on the QuerySequence objects are
\* followed between iterations, not in the middle of one.
Idle == gen.pc = "none"
NoGen == [pc |-> "none"]

\* A call that returned v, and one that raised exc; ReturnedNone where no
\* call on a QuerySequence was the last thing done.
ReturnedNone == [call |-> "", self |-> "", ok |-> TRUE, v |-> None]
Returned(call, self, v) == [call |-> call, self |-> self, ok |-> TRUE, v |-> v]
Raised(call, self, exc) == [call |-> call, self |-> self, ok |-> FALSE, exc |-> exc]

\* obj = self.clone()
clone(c, d) ==
    /\ Idle
    /\ c \in DOMAIN objs
    /\ d \in Coords \ DOMAIN objs
    /\ LET r == clone_obj(objs[c], lists, FreshList(objs, DOMAIN objs))
       IN  /\ objs' = [x \in DOMAIN objs \cup {d} |->
                          IF x = d THEN r.obj ELSE objs[x]]
           /\ lists' = r.lists
    /\ ret' = Returned("clone", c, d)
    /\ UNCHANGED gen

\* map(lambda it: it.order_by(*ordering), self._querysets) assigning each
\* result to its place in self._querysets as it is made.
order_querysets_in_place(querysets, ordering, fail) ==
    IF fail \in DOMAIN querysets
    THEN [ok |-> FALSE, exc |-> "AssertionError",
          querysets |-> [k \in DOMAIN querysets |->
                            IF k < fail THEN SourceOrderBy(querysets[k], ordering)
                            ELSE querysets[k]]]
    ELSE [ok |-> TRUE,
          querysets |-> [k \in DOMAIN querysets |->
                            SourceOrderBy(querysets[k], ordering)]]

\* self._querysets = map(lambda it: it.order_by(*ordering), self._querysets),
\* where order_by raises on the source at position `fail` (on none when fail
\* is no position): map makes a new list, and the assignment is not reached
\* when a call raises.  `querysets` is self._querysets after the statement.
order_querysets(querysets, ordering, fail) ==
    IF fail \in DOMAIN querysets
    THEN [ok |-> FALSE, exc |-> "AssertionError", querysets |-> querysets]
    ELSE [ok |-> TRUE,
          querysets |-> [k \in DOMAIN querysets |->
                            SourceOrderBy(querysets[k], ordering)]]

\* self.add_ordering(*ordering), order_by raising on the source at `fail`.
add_ordering(c, ordering, fail) ==
    /\ Idle
    /\ c \in DOMAIN objs
    /\ Len(lists[objs[c].order_by]) + Len(ordering) <= MaxOrder
    /\ LET r == order_querysets(objs[c].querysets, ordering, fail)
       IN  /\ objs' = [objs EXCEPT ![c].querysets = r.querysets]
           /\ lists' = IF r.ok /\ ordering # <<>>
                       THEN [lists EXCEPT ![objs[c].order_by] = @ \o ordering]
                       ELSE lists
           /\ ret' = IF r.ok
                     THEN [call |-> "add_ordering", self |-> c, ok |-> TRUE,
                           v |-> None, ordering |-> ordering, fail |-> fail]
                     ELSE [call |-> "add_ordering", self |-> c, ok |-> FALSE,
                           exc |-> r.exc, ordering |-> ordering, fail |-> fail]
    /\ UNCHANGED gen

\* clear_ordering asking the sources, too, to drop their ordering.
clear_ordering_sources(c) ==
    /\ Idle
    /\ c \in DOMAIN objs
    /\ LET ref == FreshList(objs, DOMAIN objs \ {c})
           o == [objs EXCEPT ![c].order_by = ref,
                             ![c].querysets = [k \in DOMAIN @ |->
                                                  SourceOrderBy(@[k], <<>>)]]
       IN  /\ objs' = o
           /\ lists' = Collect(o, [n \in DOMAIN lists \cup {ref} |->
                                      IF n = ref THEN <<>> ELSE lists[n]])
    /\ ret' = Returned("clear_ordering", c, None)
    /\ UNCHANGED gen

\* self.clear_ordering(force_empty): order_by becomes a new, empty list.
clear_ordering(c) ==
    /\ Idle
    /\ c \in DOMAIN objs
    /\ LET ref == FreshList(objs, DOMAIN objs \ {c})
           o == [objs EXCEPT ![c].order_by = ref]
       IN  /\ objs' = o
           /\ lists' = Collect(o, [n \in DOMAIN lists \cup {ref} |->
                                      IF n = ref THEN <<>> ELSE lists[n]])
    /\ ret' = Returned("clear_ordering", c, None)
    /\ UNCHANGED gen

\* self.set_limits(low, high)
set_limits(c, low, high) ==
    /\ Idle
    /\ c \in DOMAIN objs
    /\ limits_low(objs[c], low, high) <= MaxMark
    /\ limits_high(objs[c], low, high) <= MaxMark
    /\ objs' = [objs EXCEPT ![c].high_mark = limits_high(objs[c], low, high),
                            ![c].low_mark = limits_low(objs[c], low, high)]
    /\ ret' = Returned("set_limits", c, None)
    /\ UNCHANGED <<lists, gen>>

\* self.clear_limits()
clear_limits(c) ==
    /\ Idle
    /\ c \in DOMAIN objs
    /\ objs' = [objs EXCEPT ![c].low_mark = 0, ![c].high_mark = None]
    /\ ret' = Returned("clear_limits", c, None)
    /\ UNCHANGED <<lists, gen>>

\* self.can_filter()
CanFilter(c) ==
    /\ Idle
    /\ c \in DOMAIN objs
    /\ ret' = Returned("can_filter", c, can_filter(objs[c]))
    /\ UNCHANGED <<objs, lists, gen>>

\* self.get_count(using)
GetCount(c) ==
    /\ Idle
    /\ c \in DOMAIN objs
    /\ ret' = Returned("get_count", c, get_count(objs[c]))
    /\ UNCHANGED <<objs, lists, gen>>


(***************************************************************************)
(* QuerySetSequence._filter_or_exclude and _simplify.  A QuerySetSequence  *)
(* is told by the QuerySequence it holds as its query.                     *)
(***************************************************************************)
\* The predicates passed to filter and exclude: none (no args, no kwargs),
\* or field = value.
Preds == {<<>>} \cup {<<f, v>> : f \in FieldNames, v \in Vals}

Matches(row, pred) == pred = <<>> \/ row[pred[1]] = pred[2]

\* qs._filter_or_exclude(negate, **pred): the rows that match, or with
\* negate those that do not; without a predicate every row.
SourceFilter(qs, negate, pred) ==
    [qs EXCEPT !.rows = SelectSeq(@, LAMBDA row :
                            pred = <<>> \/ (Matches(row, pred) # negate))]

\* filter(None, qss.query._querysets)
NotEmpty(querysets) == SelectSeq(querysets, SourceNonEmpty)

\* _simplify returning the first source where it is to return the one
\* source that is not empty.
simplify_first(querysets) ==
    LET not_empty_qss == NotEmpty(querysets)
    IN  IF Len(not_empty_qss) = 0 THEN [kind |-> "EmptyQuerySet"]
        ELSE IF Len(not_empty_qss) = 1
        THEN [kind |-> "QuerySet", qs |-> querysets[1]]
        ELSE [kind |-> "QuerySetSequence"]

\* _simplify(qss), for the sources of qss: an EmptyQuerySet, the one source
\* that is not empty, or qss itself.
simplify(querysets) ==
    LET not_empty_qss == NotEmpty(querysets)
    IN  IF Len(not_empty_qss) = 0 THEN [kind |-> "EmptyQuerySet"]
        ELSE IF Len(not_empty_qss) = 1
        THEN [kind |-> "QuerySet", qs |-> not_empty_qss[1]]
        ELSE [kind |-> "QuerySetSequence"]

\* Whether the assertion of _filter_or_exclude fails: it is made only when
\* args or kwargs are passed.
filter_asserts(self, pred) == pred # <<>> /\ ~can_filter(self)

\* self._filter_or_exclude(negate, **pred), self holding c as its query and
\* the clone d as its: the assertion, the clone, the sources filtered, the
\* result simplified.  The clone lives on only when it is the result.
filter_or_exclude(c, d, negate, pred) ==
    /\ Idle
    /\ c \in DOMAIN objs
    /\ d \in Coords \ DOMAIN objs
    /\ IF filter_asserts(objs[c], pred)
       THEN /\ ret' = [call |-> "_filter_or_exclude", self |-> c, ok |-> FALSE,
                       exc |-> "AssertionError",
                       negate |-> negate, pred |-> pred]
            /\ UNCHANGED <<objs, lists>>
       ELSE LET r == clone_obj(objs[c], lists, FreshList(objs, DOMAIN objs))
                querysets == [k \in 1..Len(r.obj.querysets) |->
                                 SourceFilter(r.obj.querysets[k], negate, pred)]
                v == simplify(querysets)
            IN  /\ ret' = [call |-> "_filter_or_exclude", self |-> c, ok |-> TRUE,
                           v |-> IF v.kind = "QuerySetSequence"
                                 THEN [kind |-> v.kind, query |-> d] ELSE v,
                           negate |-> negate, pred |-> pred]
                /\ IF v.kind = "QuerySetSequence"
                   THEN /\ objs' = [x \in DOMAIN objs \cup {d} |->
                                       IF x = d
                                       THEN [r.obj EXCEPT !.querysets = querysets]
                                       ELSE objs[x]]
                        /\ lists' = r.lists
                   ELSE UNCHANGED <<objs, lists>>
    /\ UNCHANGED gen

\* The caller lets go of an object, keeping another.
release(c) ==
    /\ Idle
    /\ c \in DOMAIN objs
    /\ DOMAIN objs # {c}
    /\ LET o == [x \in DOMAIN objs \ {c} |-> objs[x]]
       IN  objs' = o /\ lists' = Collect(o, lists)
    /\ ret' = ReturnedNone
    /\ UNCHANGED gen

(***************************************************************************)
(* Iteration: __iter__ and the generator _ordered_iterator.  One gen_next  *)
(* step is one next() call of the consumer: the generator runs to its next *)
(* yield, to its end, or to an exception.                                  *)
(***************************************************************************)
Front(s) == SubSeq(s, 1, Len(s) - 1)
Last(s) == s[Len(s)]

\* The sequences the sources of an object yield, by position.
Seqs(self) == Map(SourceIter, self.querysets)

\* [1] * len(field_names), then -1 where the field name starts with '-'.
Reverses(field_names) ==
    [i \in 1..Len(field_names) |-> IF Head(field_names[i]) = "-" THEN -1 ELSE 1]

\* field_names after the loop over it: field_names[i] = field_name[1:] where
\* the name starts with '-'.
Stripped(field_names) ==
    [i \in 1..Len(field_names) |->
        IF Head(field_names[i]) = "-" THEN Tail(field_names[i])
        ELSE field_names[i]]

\* sorted(items, cmp=comparator, key=lambda x: x[1]): a stable sort of the
\* (iterator, value) pairs by their values; a comparison that raises ends it.
RECURSIVE insert_sorted(_, _, _, _)
insert_sorted(field_names, reverses, s, x) ==
    IF s = <<>> THEN Ok(<<x>>)
    ELSE LET c == comparator(field_names, reverses, x.value, Last(s).value)
         IN  IF ~c.ok THEN c
             ELSE IF c.v < 0
             THEN LET r == insert_sorted(field_names, reverses, Front(s), x)
                  IN  IF r.ok THEN Ok(Append(r.v, Last(s))) ELSE r
             ELSE Ok(Append(s, x))

RECURSIVE sorted(_, _, _)
sorted(field_names, reverses, items) ==
    IF items = <<>> THEN Ok(<<>>)
    ELSE LET r == sorted(field_names, reverses, Front(items))
         IN  IF r.ok THEN insert_sorted(field_names, reverses, r.v, Last(items))
             ELSE r

\* The orders in which a dict keyed by the iterators in S can list them: the
\* iterators hash by address, so any order is possible.
ItemOrders(S) ==
    {p \in [1..Cardinality(S) -> S] : \A i, j \in DOMAIN p : i # j => p[i] # p[j]}

\* A sequence without the entries equal to x.
RECURSIVE Without(_, _)
Without(s, x) ==
    IF s = <<>> THEN <<>>
    ELSE IF Head(s) = x THEN Without(Tail(s), x)
    ELSE <<Head(s)>> \o Without(Tail(s), x)

\* values.items(), in the dict's order.
Items(g) == [k \in 1..Len(g.keys) |-> [qss |-> g.keys[k], value |-> g.values[g.keys[k]]]]

\* The generator from the test of the while loop to its next yield, with
\* field_names the list as it is now.
merge_loop(g, field_names) ==
    IF Len(g.keys) > 1
    THEN LET ordered_values == sorted(field_names, g.reverses, Items(g))
         IN  IF ordered_values.ok
             THEN [g EXCEPT !.pc = "loop",
                            !.compared = TRUE,
                            !.last = ordered_values.v[1].qss,
                            !.out = Append(@, ordered_values.v[1])]
             ELSE [g EXCEPT !.pc = "raised",
                            !.compared = TRUE,
                            !.exc = ordered_values.exc]
    ELSE IF Len(g.keys) = 1
    THEN [g EXCEPT !.pc = "tail",
                   !.out = Append(@, Items(g)[1])]
    ELSE [g EXCEPT !.pc = "raised", !.exc = "IndexError"]

\* The refill reading every active source again, not only the one whose
\* value was emitted.
refill_all(g, seqs) ==
    LET more == {k \in Range(g.keys) : g.pos[k] < Len(seqs[k])}
    IN  [g EXCEPT !.pos = [k \in DOMAIN @ |-> IF k \in more THEN @[k] + 1 ELSE @[k]],
                  !.values = [k \in more |-> seqs[k][g.pos[k] + 1]],
                  !.keys = SelectSeq(@, LAMBDA k : k \in more)]

\* values[qss] = qss.next(), or del values[qss] on StopIteration.
refill(g, seqs) ==
    LET qss == g.last
    IN  IF g.pos[qss] < Len(seqs[qss])
        THEN [g EXCEPT !.pos[qss] = @ + 1,
                       !.values[qss] = seqs[qss][g.pos[qss] + 1]]
        ELSE [g EXCEPT !.keys = Without(@, qss),
                       !.values = [k \in DOMAIN @ \ {qss} |-> @[k]]]

\* What the last next() call returned or raised.
NextResult(c, g) ==
    IF g.pc = "done" THEN Raised("next", c, "StopIteration")
    ELSE IF g.pc = "raised" THEN Raised("next", c, g.exc)
    ELSE Returned("next", c, Last(g.out).value)

\* iter(self): chain(*self._querysets) when order_by is empty, the generator
\* otherwise.  `order` keeps the ordering the iteration was asked with, and
\* `prev` the call that was the last thing done before, with its result.
iter(c) ==
    /\ Idle
    /\ c \in DOMAIN objs
    /\ gen' = [pc |-> IF lists[objs[c].order_by] = <<>> THEN "chain" ELSE "created",
               self |-> c,
               order |-> lists[objs[c].order_by],
               reverses |-> <<>>,
               keys |-> <<>>,
               values |-> <<>>,
               pos |-> [k \in 1..Len(objs[c].querysets) |-> 0],
               last |-> 0,
               out |-> <<>>,
               exc |-> "",
               compared |-> FALSE,
               prev |-> ret]
    /\ ret' = Returned("__iter__", c, "iterator")
    /\ UNCHANGED <<objs, lists>>

\* chain() reading the sources from the last to the first.
ChainAtLast(g, seqs) ==
    {k \in 1..Len(seqs) :
        /\ g.pos[k] < Len(seqs[k])
        /\ \A m \in (k + 1)..Len(seqs) : g.pos[m] = Len(seqs[m])}

\* The position chain() is at: the first source not yet read to its end.
ChainAt(g, seqs) ==
    {k \in 1..Len(seqs) :
        /\ g.pos[k] < Len(seqs[k])
        /\ \A m \in 1..(k - 1) : g.pos[m] = Len(seqs[m])}

\* next() on the chain iterator.
chain_next ==
    /\ gen.pc = "chain"
    /\ LET seqs == Seqs(objs[gen.self])
           at == ChainAt(gen, seqs)
           g == IF at = {}
                THEN [gen EXCEPT !.pc = "done"]
                ELSE LET k == CHOOSE k \in at : TRUE
                     IN  [gen EXCEPT !.pos[k] = @ + 1,
                                     !.out = Append(@, [qss |-> k,
                                                        value |-> seqs[k][gen.pos[k] + 1]])]
       IN  /\ gen' = g
           /\ ret' = NextResult(gen.self, g)
    /\ UNCHANGED <<objs, lists>>

\* The first next() on the generator: the field names are stripped in the
\* list self.order_by itself, the heads of the non-empty sources are read,
\* and the loop runs to its first yield.
gen_start ==
    /\ gen.pc = "created"
    /\ LET self == objs[gen.self]
           seqs == Seqs(self)
           field_names == Stripped(lists[self.order_by])
           not_empty_qss == {k \in 1..Len(self.querysets) :
                                SourceNonEmpty(self.querysets[k])}
       IN  \E keys \in ItemOrders(not_empty_qss) :
             LET g == merge_loop(
                          [gen EXCEPT !.reverses = Reverses(lists[self.order_by]),
                                      !.keys = keys,
                                      !.values = [k \in not_empty_qss |-> seqs[k][1]],
                                      !.pos = [k \in DOMAIN @ |->
                                                  IF k \in not_empty_qss THEN 1 ELSE 0]],
                          field_names)
             IN  /\ gen' = g
                 /\ lists' = [lists EXCEPT ![self.order_by] = field_names]
                 /\ ret' = NextResult(gen.self, g)
    /\ UNCHANGED objs

\* A later next() inside the while loop: the iterator that lost its value is
\* read again, and the loop runs to its next yield.
gen_loop ==
    /\ gen.pc = "loop"
    /\ LET self == objs[gen.self]
           g == merge_loop(refill(gen, Seqs(self)), lists[self.order_by])
       IN  /\ gen' = g
           /\ ret' = NextResult(gen.self, g)
    /\ UNCHANGED <<objs, lists>>

\* A next() after the while loop: the last iterator is read to its end.
gen_tail ==
    /\ gen.pc = "tail"
    /\ LET seqs == Seqs(objs[gen.self])
           it == gen.keys[1]
           g == IF gen.pos[it] < Len(seqs[it])
                THEN [gen EXCEPT !.pos[it] = @ + 1,
                                 !.out = Append(@, [qss |-> it,
                                                    value |-> seqs[it][gen.pos[it] + 1]])]
                ELSE [gen EXCEPT !.pc = "done"]
       IN  /\ gen' = g
           /\ ret' = NextResult(gen.self, g)
    /\ UNCHANGED <<objs, lists>>

\* list(self) ends: the iterator was read until it raised, StopIteration or
\* an error, and the consumer has the elements it yielded.
finish ==
    /\ gen.pc \in {"done", "raised"}
    /\ gen' = NoGen
    /\ ret' = [call |-> "list", self |-> gen.self, ok |-> gen.pc = "done",
               v |-> [i \in 1..Len(gen.out) |-> gen.out[i].value],
               order |-> gen.order]
    /\ UNCHANGED <<objs, lists>>

\* The consumer lets go of the iterator, read to its end or not.
close ==
    /\ gen.pc # "none"
    /\ gen' = NoGen
    /\ ret' = ReturnedNone
    /\ UNCHANGED <<objs, lists>>


(***************************************************************************)
(* The specification of the iteration: a QuerySequence over drawn sources, *)
(* constructed and then ordered by a drawn ordering (add_ordering), and    *)
(* iterated any number of times.                                           *)
(***************************************************************************)
\* The orderings drawn: every list of tokens that names no field twice.
OrderSpecs ==
    {s \in SeqsUpTo(Tokens, Cardinality(FieldNames)) :
        \A i, j \in DOMAIN s : i # j => FieldOf(s[i]) # FieldOf(s[j])}

\* The tables drawn for the sources: one per position, MaxRows rows in all.
TableLengths ==
    {n \in [SourcePositions -> 0..MaxRows] : n[1] + n[2] + n[3] <= MaxRows}

Tables ==
    UNION {{<<t1, t2, t3>> : t1 \in [1..n[1] -> Elements],
                             t2 \in [1..n[2] -> Elements],
                             t3 \in [1..n[3] -> Elements]} : n \in TableLengths}

\* The state after qs = QuerySequence(*args); qs.add_ordering(*ordering), for
\* tables that list their rows in the order asked for.
InitMerge ==
    \E ordering \in OrderSpecs, t \in Tables :
        /\ \A k \in SourcePositions : IsSortedBy(ordering, t[k])
        /\ objs = [c \in {"c1"} |->
                      init([k \in 1..Cardinality(SourcePositions) |->
                               Source(t[k], ordering)], 1)]
        /\ lists = [n \in {1} |-> ordering]
        /\ gen = NoGen
        /\ ret = ReturnedNone

NextMerge ==
    \/ \E c \in Coords : iter(c)
    \/ chain_next
    \/ gen_start
    \/ gen_loop
    \/ gen_tail
    \/ close

SpecMerge == InitMerge /\ [][NextMerge]_vars

(***************************************************************************)
(* Properties of the iteration, under SpecMerge.                           *)
(***************************************************************************)
\* How often e occurs in s, and whether s and t hold the same elements.
Occurrences(s, e) == Cardinality({i \in DOMAIN s : s[i] = e})
SameElements(s, t) ==
    /\ Len(s) = Len(t)
    /\ \A e \in Range(s) \cup Range(t) : Occurrences(s, e) = Occurrences(t, e)

\* The elements emitted so far, without the sources they came from.
Emitted == [i \in 1..Len(gen.out) |-> gen.out[i].value]

\* The iteration is over: the iterator is exhausted or has raised.
Over == gen.pc \in {"done", "raised"}

\* The sources of the iterated object are each sorted by the ordering the
\* iteration was asked with.
SourcesSorted ==
    \A k \in DOMAIN objs[gen.self].querysets :
        IsSortedBy(gen.order, SourceIter(objs[gen.self].querysets[k]))

\* All the elements of the sources of the iterated object, source by source.
Concatenation == ConcatAll(Seqs(objs[gen.self]))

\* C1 (as claimed): an iteration with a non-empty ordering over sources that
\* are each sorted by it ends normally, having emitted the elements of all
\* the sources in the order of that ordering.
MergeCorrect ==
    (Over /\ gen.order # <<>> /\ SourcesSorted) =>
        /\ gen.pc = "done"
        /\ SameElements(Emitted, Concatenation)
        /\ IsSortedBy(gen.order, Emitted)

\* The elements of the sources with the position of their source, in the
\* order of the source list.
TaggedConcatenation ==
    LET seqs == Seqs(objs[gen.self])
    IN  ConcatAll([k \in 1..Len(seqs) |->
                      [j \in 1..Len(seqs[k]) |-> [qss |-> k, value |-> seqs[k][j]]]])

IsPrefix(s, t) == Len(s) <= Len(t) /\ s = SubSeq(t, 1, Len(s))

\* C2: an iteration asked with an empty order_by emits the elements of
\* source 1 in that source's order, then those of source 2, and so on, and
\* compares nothing: what it has emitted is at every point a prefix of the
\* concatenation, and all of it at the end.
ChainIsConcatenation ==
    (gen.pc # "none" /\ gen.order = <<>>) =>
        /\ gen.pc \in {"chain", "done"}
        /\ ~gen.compared
        /\ IsPrefix(gen.out, TaggedConcatenation)
        /\ gen.pc = "done" => gen.out = TaggedConcatenation

\* An unordered iteration has ended over two sources that are not empty, the
\* first of them holding a row that sorts after a row of the second.
ChainWitness ==
    /\ gen.pc = "done"
    /\ gen.order = <<>>
    /\ Len(gen.out) >= 3
    /\ \E i, j \in DOMAIN gen.out :
          /\ i < j
          /\ gen.out[i].qss < gen.out[j].qss
          /\ gen.out[i].value["a"] > gen.out[j].value["a"]

\* The generator has run its first step, so that field_names and reverses
\* are set.
Started == gen.pc \in {"loop", "tail", "done", "raised"} /\ gen.order # <<>>

\* C3 (as claimed): for an ordering of one or more fields the comparator,
\* applied to two buffered heads, returns the first non-zero comparison of
\* the fields in order, negated for a descending field, and 0 when all are
\* equal; it returns a value and does not fail.
ComparatorComposite ==
    Started =>
        \A k, m \in DOMAIN gen.values :
            k # m =>
                comparator(lists[objs[gen.self].order_by], gen.reverses,
                           gen.values[k], gen.values[m])
                    = Ok(SpecCompare(gen.order, gen.values[k], gen.values[m]))

\* C4 (as claimed): the head emitted inside the merge loop comes from the
\* source of the lowest position among the sources whose heads compare equal
\* to it.
TieBreakLowestPosition ==
    gen.pc = "loop" =>
        \A k \in DOMAIN gen.values :
            SpecCompare(gen.order, gen.values[k], Last(gen.out).value) = 0
                => Last(gen.out).qss <= k

(***************************************************************************)
(* The specification of the QuerySequence protocol: an object constructed  *)
(* over three sources, its clone, and the calls that change the ordering   *)
(* and the window of either.                                               *)
(***************************************************************************)
\* The sources of the constructed object: two tables with rows, one without.
ProtocolArgs ==
    <<Source(<<[a |-> 0, b |-> 1], [a |-> 1, b |-> 0]>>, <<>>),
      Source(<<[a |-> 1, b |-> 1]>>, <<>>),
      Source(<<>>, <<>>)>>

\* The orderings passed to add_ordering: none, and a descending field.
Orderings == {<<>>, <<<<"-", "a">>>>}

\* The low and high passed to set_limits: None or a non-negative int.
Limits == {None} \cup (0..MaxMark)

\* The state after qs = QuerySequence(*args).
InitOf(args) ==
    /\ objs = [c \in {"c1"} |-> init(args, 1)]
    /\ lists = [n \in {1} |-> <<>>]
    /\ gen = NoGen
    /\ ret = ReturnedNone

Init == InitOf(ProtocolArgs)

Next ==
    \/ \E c, d \in Coords : clone(c, d)
    \/ \E c \in Coords, ordering \in Orderings : add_ordering(c, ordering, 0)
    \/ \E c \in Coords : clear_ordering(c)
    \/ \E c \in Coords, low, high \in Limits : set_limits(c, low, high)
    \/ \E c \in Coords : clear_limits(c)

Spec == Init /\ [][Next]_vars

(***************************************************************************)
(* Properties of the protocol, under Spec.                                 *)
(***************************************************************************)
\* What a caller sees of an object: its ordering, its window, its sources.
View(o, l, c) ==
    [order_by |-> l[o[c].order_by],
     low_mark |-> o[c].low_mark,
     high_mark |-> o[c].high_mark,
     querysets |-> o[c].querysets]

\* The calls that change the ordering or the window of their receiver.
Mutators == {"add_ordering", "clear_ordering", "set_limits", "clear_limits"}

\* C5: add_ordering, clear_ordering, set_limits and clear_limits on one of
\* an object and its clone leave the ordering, window and sources of the
\* other as they were, whichever of the two is called; and a clone starts
\* with the ordering and the window of the object it was made from, which
\* the cloning leaves unchanged.
CloneIsolation ==
    [][/\ ret'.call \in Mutators =>
              \A d \in DOMAIN objs \ {ret'.self} :
                  View(objs', lists', d) = View(objs, lists, d)
       /\ ret'.call = "clone" =>
              /\ \A c \in DOMAIN objs : View(objs', lists', c) = View(objs, lists, c)
              /\ View(objs', lists', ret'.v) = View(objs, lists, ret'.self)
      ]_vars

\* An object and its clone have come to differ in ordering and in window,
\* each having been given an ordering and limits of its own.
CloneIsolationWitness ==
    /\ DOMAIN objs = Coords
    /\ lists[objs["c1"].order_by] = <<<<"-", "a">>>>
    /\ lists[objs["c2"].order_by] = <<<<"-", "a">>, <<"-", "a">>>>
    /\ objs["c1"].high_mark = 2 /\ objs["c1"].low_mark = 1
    /\ objs["c2"].high_mark = None /\ objs["c2"].low_mark = 2

(***************************************************************************)
(* The specification of the window: an object, its clone, and the calls    *)
(* that set, clear and test the limits of either.                          *)
(***************************************************************************)
NextWindow ==
    \/ \E c, d \in Coords : clone(c, d)
    \/ \E c \in Coords, low, high \in Limits : set_limits(c, low, high)
    \/ \E c \in Coords : clear_limits(c)
    \/ \E c \in Coords : CanFilter(c)

SpecWindow == Init /\ [][NextWindow]_vars

\* The window of an object is the default one, (0, None).
DefaultWindow(self) == self.low_mark = 0 /\ self.high_mark = None

\* C6: a set_limits call leaves its receiver a window within the one it
\* had: low_mark does not decrease, and a high_mark that was set stays set
\* and does not increase.
WindowNarrows ==
    [][ret'.call = "set_limits" =>
          LET before == objs[ret'.self]
              after == objs'[ret'.self]
          IN  /\ after.low_mark >= before.low_mark
              /\ before.high_mark # None =>
                     /\ after.high_mark # None
                     /\ after.high_mark <= before.high_mark
      ]_vars

\* A set_limits call has just clamped: the object has a window that is
\* empty at a positive low mark.
WindowNarrowsWitness ==
    /\ ret.call = "set_limits"
    /\ objs[ret.self].low_mark > 0
    /\ objs[ret.self].high_mark = objs[ret.self].low_mark

\* C7: every object has a low_mark that is a non-negative integer and a
\* high_mark that, when set, is not below the low_mark.
WindowWellFormed ==
    \A c \in DOMAIN objs :
        /\ objs[c].low_mark \in Nat
        /\ objs[c].high_mark # None => objs[c].high_mark >= objs[c].low_mark

\* A clone holds a window with both marks set and low_mark positive, below
\* high_mark.
WindowWellFormedWitness ==
    /\ "c2" \in DOMAIN objs
    /\ objs["c2"].low_mark > 0
    /\ objs["c2"].high_mark > objs["c2"].low_mark

\* C8: can_filter() returns true exactly when the window of its receiver is
\* the default one; so it is true of the object just constructed and of one
\* whose limits were just cleared, and false of one on which set_limits has
\* just left a high mark or a positive low mark.
CanFilterGating ==
    /\ ret.call = "can_filter" => (ret.v <=> DefaultWindow(objs[ret.self]))
    /\ ret.call = "" => \A c \in DOMAIN objs : can_filter(objs[c])
    /\ ret.call = "clear_limits" => can_filter(objs[ret.self])
    /\ (/\ ret.call = "set_limits"
        /\ (objs[ret.self].high_mark # None \/ objs[ret.self].low_mark > 0))
           => ~can_filter(objs[ret.self])

\* can_filter() has returned false for an object with no high mark and a
\* positive low mark.
CanFilterGatingWitness ==
    /\ ret.call = "can_filter"
    /\ ~ret.v
    /\ objs[ret.self].high_mark = None
    /\ objs[ret.self].low_mark > 0

(***************************************************************************)
(* The specification of the count: an object over drawn sources, and the   *)
(* calls that change its ordering and its window, and count it.            *)
(***************************************************************************)
\* The tables drawn: of every length, all their rows alike.
CountTables ==
    {t \in Tables : \A k \in SourcePositions : \A i \in DOMAIN t[k] :
                        t[k][i] = [a |-> 0, b |-> 0]}

InitCount ==
    \E t \in CountTables :
        InitOf([k \in 1..Cardinality(SourcePositions) |-> Source(t[k], <<>>)])

NextCount ==
    \/ \E c \in Coords, ordering \in Orderings : add_ordering(c, ordering, 0)
    \/ \E c \in Coords : clear_ordering(c)
    \/ \E c \in Coords, low, high \in Limits : set_limits(c, low, high)
    \/ \E c \in Coords : clear_limits(c)
    \/ \E c \in Coords : GetCount(c)

SpecCount == InitCount /\ [][NextCount]_vars

\* C9: get_count() returns the number of elements the sources of its
\* receiver hold in all, whatever the ordering and the window are, and
\* changes nothing of the object.
CountAdditive ==
    /\ [](ret.call = "get_count" =>
              ret.v = Len(ConcatAll(Seqs(objs[ret.self]))))
    /\ [][ret'.call = "get_count" => UNCHANGED <<objs, lists>>]_vars

\* get_count() has returned 3 for an object with an ordering and with a
\* window that holds fewer than 3 positions.
CountAdditiveWitness ==
    /\ ret.call = "get_count"
    /\ ret.v = 3
    /\ lists[objs[ret.self].order_by] # <<>>
    /\ objs[ret.self].low_mark = 1
    /\ objs[ret.self].high_mark = 2

(***************************************************************************)
(* The specification of the filtering: an object over drawn sources, the   *)
(* results of filtering it, and the results of filtering those.            *)
(***************************************************************************)
InitFilter ==
    \E t \in Tables :
        InitOf([k \in 1..Cardinality(SourcePositions) |-> Source(t[k], <<>>)])

NextFilter ==
    \/ \E c, d \in Coords, negate \in BOOLEAN, pred \in Preds :
           filter_or_exclude(c, d, negate, pred)
    \/ \E c \in Coords : release(c)

SpecFilter == InitFilter /\ [][NextFilter]_vars

\* The sources of the receiver of the last _filter_or_exclude call, filtered
\* as that call filtered them.
Filtered ==
    [k \in 1..Len(objs[ret.self].querysets) |->
        SourceFilter(objs[ret.self].querysets[k], ret.negate, ret.pred)]

\* The positions of the filtered sources that are not empty.
NonEmptyPositions == {k \in DOMAIN Filtered : Len(SourceIter(Filtered[k])) > 0}

\* C10: the result of a filtering is the empty marker when no filtered
\* source is non-empty, the one non-empty filtered source itself when there
\* is exactly one, and a QuerySetSequence over the filtered sources when
\* there are two or more.
SimplifyByNonEmpty ==
    (ret.call = "_filter_or_exclude" /\ ret.ok) =>
        /\ Cardinality(NonEmptyPositions) = 0 => ret.v = [kind |-> "EmptyQuerySet"]
        /\ Cardinality(NonEmptyPositions) = 1 =>
               \A k \in NonEmptyPositions :
                   ret.v = [kind |-> "QuerySet", qs |-> Filtered[k]]
        /\ Cardinality(NonEmptyPositions) >= 2 =>
               /\ ret.v.kind = "QuerySetSequence"
               /\ ret.v.query \in DOMAIN objs
               /\ objs[ret.v.query].querysets = Filtered

\* Of three sources with rows, a filtering has emptied the first and the
\* third, and returned the second.
SimplifyWitness ==
    /\ ret.call = "_filter_or_exclude" /\ ret.ok
    /\ \A k \in SourcePositions : SourceNonEmpty(objs[ret.self].querysets[k])
    /\ NonEmptyPositions = {2}
    /\ ret.v.kind = "QuerySet"
    /\ ret.v.qs = Filtered[2]

(***************************************************************************)
(* The specification of filtering after slicing: an object over three      *)
(* sources, the calls that set and clear its limits, and the filterings of *)
(* it and of their results.                                                *)
(***************************************************************************)
NextReject ==
    \/ \E c \in Coords, low, high \in Limits : set_limits(c, low, high)
    \/ \E c \in Coords : clear_limits(c)
    \/ \E c, d \in Coords, negate \in BOOLEAN, pred \in Preds :
           filter_or_exclude(c, d, negate, pred)
    \/ \E c \in Coords : release(c)

SpecReject == Init /\ [][NextReject]_vars

\* C11 (as claimed): a _filter_or_exclude call, with or without predicates,
\* on an object for which can_filter() is false raises an error.
FilterAfterSliceRejected ==
    (ret.call = "_filter_or_exclude" /\ ~can_filter(objs[ret.self])) => ~ret.ok

\* What the code does where C11 fails: a _filter_or_exclude call raises
\* exactly when predicates are passed and can_filter() is false of its
\* receiver, the error being an AssertionError; a call without predicates
\* succeeds whatever the window; and no call, raising or not, changes the
\* sources, ordering or window of its receiver, a raising one changing
\* nothing at all.
FilterRejection ==
    /\ [](ret.call = "_filter_or_exclude" =>
              /\ ~ret.ok <=> (ret.pred # <<>> /\ ~can_filter(objs[ret.self]))
              /\ ~ret.ok => ret.exc = "AssertionError")
    /\ [][ret'.call = "_filter_or_exclude" =>
              /\ ret'.self \in DOMAIN objs'
              /\ View(objs', lists', ret'.self) = View(objs, lists, ret'.self)
              /\ ~ret'.ok => UNCHANGED <<objs, lists>>
        ]_vars

\* A filtering with a predicate has been rejected on an object whose window
\* has both marks set.
FilterRejectionWitness ==
    /\ ret.call = "_filter_or_exclude"
    /\ ~ret.ok
    /\ ret.pred # <<>>
    /\ objs[ret.self].low_mark > 0
    /\ objs[ret.self].high_mark # None

(***************************************************************************)
(* The specification of repeated iteration: the ordered QuerySequence of   *)
(* SpecMerge, listed again and again.                                      *)
(***************************************************************************)
NextRepeat ==
    \/ \E c \in Coords : iter(c)
    \/ chain_next
    \/ gen_start
    \/ gen_loop
    \/ gen_tail
    \/ finish

SpecRepeat == InitMerge /\ [][NextRepeat]_vars

\* The values an ordering looks at, for each element of a sequence.
OrderKeys(order, s) ==
    [i \in 1..Len(s) |->
        [k \in 1..Len(order) |-> getattr(s[i], FieldOf(order[k]))]]

\* C12 (as claimed): a second listing of an object with an ordering, made
\* right after a first one that ended normally, ends normally too and gives
\* the same sequence; stated for what the ordering looks at, so that it
\* does not depend on how elements that compare equal are arranged: the
\* two listings agree, position by position, on the values of the ordering
\* fields.
RepeatableIteration ==
    (gen.pc \in {"done", "raised"} /\ gen.prev.call = "list"
        /\ gen.prev.self = gen.self /\ gen.prev.ok /\ gen.prev.order # <<>>) =>
        /\ gen.pc = "done"
        /\ OrderKeys(gen.prev.order, Emitted) = OrderKeys(gen.prev.order, gen.prev.v)

(***************************************************************************)
(* The specification of the ordering calls: an object over three sources,  *)
(* add_ordering with order_by raising on any of the sources or on none,    *)
(* clear_ordering, and the iterations made in between.                     *)
(***************************************************************************)
\* The position at which order_by raises: none (0), or that of a source.
FailAt == 0..Len(ProtocolArgs)

NextOrdering ==
    \/ \E c \in Coords, ordering \in Orderings, fail \in FailAt :
           add_ordering(c, ordering, fail)
    \/ \E c \in Coords : clear_ordering(c)
    \/ \E c \in Coords : iter(c)
    \/ chain_next
    \/ gen_start
    \/ gen_loop
    \/ gen_tail
    \/ close

SpecOrdering == Init /\ [][NextOrdering]_vars

\* The sources of `querysets` before position k reordered, the others not.
MixedOrder(querysets, ordering, k) ==
    [m \in DOMAIN querysets |->
        IF m < k THEN SourceOrderBy(querysets[m], ordering) ELSE querysets[m]]

\* C13 (as claimed): an add_ordering call whose reorder request fails on
\* source k leaves the object holding the sources before k reordered by the
\* fields and the others as they were.
AddOrderingPartial ==
    [][(ret'.call = "add_ordering" /\ ~ret'.ok) =>
           objs'[ret'.self].querysets =
               MixedOrder(objs[ret'.self].querysets, ret'.ordering, ret'.fail)
      ]_vars

\* C13 (amended): an add_ordering call whose reorder request fails on any
\* source leaves the object as it was: none of its sources is reordered,
\* and its order_by and its window are unchanged.
AddOrderingAtomic ==
    [][(ret'.call = "add_ordering" /\ ~ret'.ok) => UNCHANGED <<objs, lists>>]_vars

\* add_ordering has failed on the third source with fields that the first
\* two sources were not ordered by.
AddOrderingAtomicWitness ==
    /\ ret.call = "add_ordering"
    /\ ~ret.ok
    /\ ret.fail = 3
    /\ ret.ordering # <<>>
    /\ \A k \in 1..2 : objs[ret.self].querysets[k].ord # ret.ordering

\* C14: clear_ordering leaves its receiver with an empty order_by and with
\* the sources, each with the ordering it had, and the window it had; and
\* an iteration begun right after it compares nothing and emits the
\* elements of the first source in the order that source has, then those of
\* the second, and so on, all of them by its end.
ClearOrderingFrame ==
    /\ [][ret'.call = "clear_ordering" =>
              /\ lists'[objs'[ret'.self].order_by] = <<>>
              /\ objs'[ret'.self].querysets = objs[ret'.self].querysets
              /\ objs'[ret'.self].low_mark = objs[ret'.self].low_mark
              /\ objs'[ret'.self].high_mark = objs[ret'.self].high_mark
        ]_vars
    /\ []((gen.pc # "none" /\ gen.prev.call = "clear_ordering"
              /\ gen.prev.self = gen.self) =>
             /\ gen.pc \in {"chain", "done"}
             /\ ~gen.compared
             /\ IsPrefix(gen.out, TaggedConcatenation)
             /\ gen.pc = "done" => gen.out = TaggedConcatenation)

\* An iteration begun right after clear_ordering has ended over sources
\* that keep a descending ordering, having emitted the rows of the first
\* source in that descending order.
ClearOrderingWitness ==
    /\ gen.pc = "done"
    /\ gen.prev.call = "clear_ordering"
    /\ \A k \in DOMAIN objs[gen.self].querysets :
          objs[gen.self].querysets[k].ord = <<<<"-", "a">>>>
    /\ Len(gen.out) = 3
    /\ gen.out[1].value["a"] > gen.out[2].value["a"]

\* C16 (as claimed): an iteration, begun and run, leaves the order_by of
\* the iterated object as it was when the iteration was asked for.
IterationKeepsOrderBy ==
    gen.pc # "none" => lists[objs[gen.self].order_by] = gen.order

\* C19 (as claimed): an order_by that is not empty is the list of fields
\* every source of the object is ordered by.
OrderByMatchesSources ==
    \A c \in DOMAIN objs :
        lists[objs[c].order_by] # <<>> =>
            \A k \in DOMAIN objs[c].querysets :
                objs[c].querysets[k].ord = lists[objs[c].order_by]

\* How many of the elements emitted so far came from the source at k.
EmittedFrom(k) == Cardinality({i \in DOMAIN gen.out : gen.out[i].qss = k})

\* C15: at every point of an ordered iteration the elements read from a
\* source are those emitted from it and at most one more, and exactly those
\* emitted for a source that is not in the active set (empty or read to its
\* end); and the elements read change only in a next() call, not when the
\* consumer does anything else or lets go of the iterator.
Laziness ==
    /\ []((gen.pc # "none" /\ gen.order # <<>>) =>
             \A k \in DOMAIN gen.pos :
                 /\ gen.pos[k] - EmittedFrom(k) \in {0, 1}
                 /\ k \notin Range(gen.keys) => gen.pos[k] = EmittedFrom(k))
    /\ [][(gen.pc # "none" /\ gen'.pc # "none" /\ gen'.pos # gen.pos)
              => ret'.call = "next"]_vars

\* An ordered iteration is inside its loop with two elements emitted, one
\* source read to its end and out of the active set, and another with one
\* element read and not yet emitted.
LazinessWitness ==
    /\ gen.pc = "loop"
    /\ Len(gen.out) = 2
    /\ \E k \in DOMAIN gen.pos : gen.pos[k] > 0 /\ k \notin Range(gen.keys)
    /\ \E k \in Range(gen.keys) : gen.pos[k] = EmittedFrom(k) + 1

\* C17 (as claimed): in an ordered iteration only sources that are not
\* empty are in the active set, and when no source has an element the
\* iteration ends without an error, having emitted nothing.
EmptySourcesDropped ==
    Started =>
        /\ \A k \in Range(gen.keys) : SourceNonEmpty(objs[gen.self].querysets[k])
        /\ (\A k \in DOMAIN objs[gen.self].querysets :
                ~SourceNonEmpty(objs[gen.self].querysets[k]))
               => (gen.pc = "done" /\ gen.out = <<>>)

(***************************************************************************)
(* The specification of sliced iteration: an object over three sources,    *)
(* the calls that order it and set and clear its limits, and its           *)
(* iterations.                                                             *)
(***************************************************************************)
NextSlice ==
    \/ \E c \in Coords, ordering \in Orderings : add_ordering(c, ordering, 0)
    \/ \E c \in Coords, low, high \in Limits : set_limits(c, low, high)
    \/ \E c \in Coords : clear_limits(c)
    \/ \E c \in Coords : iter(c)
    \/ chain_next
    \/ gen_start
    \/ gen_loop
    \/ gen_tail
    \/ close

SpecSlice == Init /\ [][NextSlice]_vars

\* seq[low:high] for low and high that are None or not negative.
PySlice(seq, low, high) ==
    SubSeq(seq, IF low = None THEN 1 ELSE low + 1,
                IF high = None THEN Len(seq) ELSE Min(high, Len(seq)))

\* C18 (as claimed): an iteration that has ended has emitted as many
\* elements as the positions low_mark .. high_mark-1 (to the end when
\* high_mark is None) of the merged sequence hold, and, for an object
\* without ordering, the elements at those positions of the concatenation
\* of the sources.
WindowApplied ==
    gen.pc = "done" =>
        LET window == PySlice(Concatenation, objs[gen.self].low_mark,
                              objs[gen.self].high_mark)
        IN  /\ Len(Emitted) = Len(window)
            /\ gen.order = <<>> => Emitted = window

\* The positions 0, 1, ... of a sequence long enough to tell apart any two
\* windows that one call can make of a window within the bounds.
Positions == [i \in 1..(2 * MaxMark + 2) |-> i - 1]

\* C20: whatever window seq[l:h] an object has come to by set_limits calls
\* from the default one, a set_limits(low, high) call, for any low and high
\* that are None or not negative, makes it the window that selects
\* seq[l:h][low:high]: the bounds are taken relative to the low mark and
\* clamped to the high mark, and a low beyond the high mark gives
\* low_mark = high_mark, not an inverted window.
WindowComposition ==
    \A c \in DOMAIN objs : \A low, high \in Limits :
        LET self == objs[c]
            low_mark == limits_low(self, low, high)
            high_mark == limits_high(self, low, high)
        IN  /\ PySlice(Positions, low_mark, high_mark)
                 = PySlice(PySlice(Positions, self.low_mark, self.high_mark),
                           low, high)
            /\ high_mark # None => low_mark <= high_mark

\* set_limits has left an object a window with both marks set and a
\* positive low mark below the high mark, from which a further call with a
\* low beyond its width gives an empty window at the high mark.
WindowCompositionWitness ==
    /\ ret.call = "set_limits"
    /\ objs[ret.self].low_mark = 1
    /\ objs[ret.self].high_mark = 2
    /\ limits_low(objs[ret.self], 2, None) = 2
    /\ limits_high(objs[ret.self], 2, None) = 2

====
